---------------------------- MODULE Spec2Model ----------------------------
(***************************************************************************)
(* Model of the contribution pipeline of git-streaks                       *)
(* (src-tauri/src/github/parser.rs and fetcher.rs): the statistics engine  *)
(* (calculate_stats, calculate_current_streak, calculate_longest_streak),  *)
(* the weekly grouper (group_into_weeks) and the extractor                 *)
(* (parse_contribution_html).                                              *)
(*                                                                         *)
(* A date string "YYYY-MM-DD" is the tuple <<y, m, d>> of its three        *)
(* numeric fields, so the order of the tuples is the byte order of the     *)
(* strings; the empty string is <<>>.  A chrono NaiveDate is the number of *)
(* the day counted from 0001-01-01 = 1 (num_days_from_ce).                 *)
(***************************************************************************)
EXTENDS Integers, Sequences, FiniteSets, TLC

VARIABLES
    days,     \* the Vec<ContributionDay> handed to the engine and the grouper
    clock,    \* the local date chrono::Local::now() reports (a NaiveDate)
    stats,    \* the last result of calculate_stats, with the date it read
    weeks,    \* the last result of group_into_weeks
    html,     \* the response body handed to parse_contribution_html
    fetched,  \* the result of github::fetch_contributions on html
    parse_result, \* the result of parse_contribution_html on html
    outcome,  \* how the last call of calculate_stats ended: a value or a panic
    scan,     \* calculate_longest_streak under way: iterations done, locals
    CONTRIBUTION_CACHE,  \* lib.rs: the cached ContributionData, if any
    CURRENT_USERNAME,    \* lib.rs: the stored username, if any
    commands, \* the fetch_contributions commands under way, by slot
    reply,    \* the last value a command returned to the frontend
    started,  \* whether the setup hook has run
    last_stored,    \* the data of the successful fetch that stored last
    last_completed  \* the data of the successful fetch that returned last

\* The state of the commands of lib.rs.
app_vars ==
    <<CONTRIBUTION_CACHE, CURRENT_USERNAME, commands, reply, started,
      last_stored, last_completed>>

vars ==
    <<days, clock, stats, weeks, html, fetched, parse_result, outcome, scan,
      app_vars>>

-----------------------------------------------------------------------------
(* Bounds of the model.                                                    *)

\* Longest day list Init draws.
MaxLen == 3

\* Number of days the clock may advance.
MaxTicks == 1

\* Longest response body, in tokens, InitFetch draws.
MaxTokens == 4

\* Most fetch_contributions commands under way at a time.
MaxCommands == 2

\* Most day elements in a body InitElements draws.
MaxElements == 2

-----------------------------------------------------------------------------
(* chrono: NaiveDate::parse_from_str(s, "%Y-%m-%d"), weekday, day arithmetic *)

IsLeapYear(y) == (y % 4 = 0 /\ y % 100 # 0) \/ y % 400 = 0

DaysInMonth(y, m) ==
    IF m = 2 THEN (IF IsLeapYear(y) THEN 29 ELSE 28)
    ELSE IF m \in {4, 6, 9, 11} THEN 30 ELSE 31

\* Whether parse_from_str returns Ok: the fields name a day of the calendar.
ParseOk(s) ==
    /\ Len(s) = 3
    /\ s[2] \in 1..12
    /\ s[3] \in 1..DaysInMonth(s[1], s[2])

RECURSIVE DaysBeforeMonth(_, _)
DaysBeforeMonth(y, m) ==
    IF m = 1 THEN 0 ELSE DaysBeforeMonth(y, m - 1) + DaysInMonth(y, m - 1)

\* The NaiveDate parse_from_str returns for a string with ParseOk.
DateValue(s) ==
    LET p == s[1] - 1
    IN  365 * p + (p \div 4) - (p \div 100) + (p \div 400)
          + DaysBeforeMonth(s[1], s[2]) + s[3]

\* date.weekday().num_days_from_sunday(): 0 = Sunday .. 6 = Saturday.
WeekdayFromSunday(date) == date % 7

-----------------------------------------------------------------------------
(* types.rs                                                                *)

EmptyString == <<>>

\* Option: None is <<>>, Some(x) is <<x>>.
None == <<>>
Some(x) == <<x>>

EmptyStreak == [count |-> 0, start_date |-> EmptyString, end_date |-> EmptyString]

ContributionDay(date, count, level) ==
    [date |-> date, count |-> count, level |-> level]

-----------------------------------------------------------------------------
(* parser.rs: statistics                                                   *)

\* days.iter().map(|d| d.count).sum()
\* A sum that, like the loops of the streaks, skips the records whose date
\* does not parse.
RECURSIVE SumCounts_DatedOnly(_)
SumCounts_DatedOnly(ds) ==
    IF ds = <<>> THEN 0
    ELSE (IF ParseOk(ds[1].date) THEN ds[1].count ELSE 0)
            + SumCounts_DatedOnly(Tail(ds))

RECURSIVE SumCounts(_)
SumCounts(ds) ==
    IF ds = <<>> THEN 0 ELSE ds[1].count + SumCounts(Tail(ds))

\* A max_by_key that keeps the earlier of two equal keys.
KeepsLater_Strict(best_key, next_key) == next_key > best_key

\* Iterator::max_by_key folds with max_by: of two elements it keeps the
\* later one unless the earlier key is strictly greater.
KeepsLater(best_key, next_key) == next_key >= best_key

\* Iterator::max_by_key(|d| d.count): the index of the element it returns
\* (0 for an empty list).
RECURSIVE MaxByKeyIndex(_, _, _)
MaxByKeyIndex(ds, i, best) ==
    IF i > Len(ds) THEN best
    ELSE IF best = 0 \/ KeepsLater(ds[best].count, ds[i].count)
         THEN MaxByKeyIndex(ds, i + 1, i)
         ELSE MaxByKeyIndex(ds, i + 1, best)

\* A best day that is the first of the records with the greatest count.
BestDayOf_FirstMax(ds) ==
    IF ds = <<>> THEN [date |-> EmptyString, count |-> 0]
    ELSE LET i == CHOOSE k \in 1..Len(ds) :
                    /\ \A j \in 1..Len(ds) : ds[j].count <= ds[k].count
                    /\ \A j \in 1..(k - 1) : ds[j].count < ds[k].count
         IN  [date |-> ds[i].date, count |-> ds[i].count]

BestDayOf(ds) ==
    LET i == MaxByKeyIndex(ds, 1, 0)
    IN  IF i = 0 THEN [date |-> EmptyString, count |-> 0]
        ELSE [date |-> ds[i].date, count |-> ds[i].count]

\* total as f32 / len as f32, kept as the fraction it rounds; 0.0 is 0/1.
AveragePerDay(total, len) ==
    IF len > 0 THEN [num |-> total, den |-> len] ELSE [num |-> 0, den |-> 1]

\* A walk that lets the streak begin today only.
StartsStreak_TodayOnly(date, today, yesterday) == date = today

\* "First day must be today or yesterday".
StartsStreak(date, today, yesterday) == date = today \/ date = yesterday

\* A walk that accepts any earlier active day, gaps included.
ContinuesStreak_AnyEarlier(date, last_date) == date < last_date

\* "Must be consecutive with previous day in streak".
ContinuesStreak(date, last_date) == date = last_date - 1

\* A zero-count record met before the streak has begun ends the walk.
PastYesterday(date, yesterday) == date < yesterday

\* The loop of calculate_current_streak over days.iter().rev(): i is the
\* index of the record under examination, streak_days the indices of the
\* records pushed so far (most recent first).  The result is streak_days
\* when the loop ends (by break or by exhaustion).
RECURSIVE CurrentStreakDays(_, _, _, _)
CurrentStreakDays(ds, i, streak_days, today) ==
    IF i = 0 THEN streak_days
    ELSE
      LET day == ds[i]
          yesterday == today - 1
      IN
      IF ~ParseOk(day.date)
      THEN CurrentStreakDays(ds, i - 1, streak_days, today)
      ELSE
        LET date == DateValue(day.date) IN
        IF day.count > 0 THEN
          IF streak_days = <<>> THEN
            IF StartsStreak(date, today, yesterday)
            THEN CurrentStreakDays(ds, i - 1, <<i>>, today)
            ELSE streak_days
          ELSE
            LET last_date == DateValue(ds[streak_days[Len(streak_days)]].date) IN
            IF ContinuesStreak(date, last_date)
            THEN CurrentStreakDays(ds, i - 1, Append(streak_days, i), today)
            ELSE streak_days
        ELSE IF streak_days # <<>> THEN streak_days
        ELSE IF PastYesterday(date, yesterday) THEN streak_days
        ELSE CurrentStreakDays(ds, i - 1, streak_days, today)

\* A result with the most recent day as start_date and the earliest as
\* end_date.
calculate_current_streak_Swapped(ds, today) ==
    IF ds = <<>> THEN EmptyStreak
    ELSE
      LET streak_days == CurrentStreakDays(ds, Len(ds), <<>>, today) IN
      IF streak_days = <<>> THEN EmptyStreak
      ELSE [count      |-> Len(streak_days),
            start_date |-> ds[streak_days[1]].date,
            end_date   |-> ds[streak_days[Len(streak_days)]].date]

\* calculate_current_streak, with the date it reads from the clock.
calculate_current_streak(ds, today) ==
    IF ds = <<>> THEN EmptyStreak
    ELSE
      LET streak_days == CurrentStreakDays(ds, Len(ds), <<>>, today) IN
      IF streak_days = <<>> THEN EmptyStreak
      ELSE [count      |-> Len(streak_days),
            start_date |-> ds[streak_days[Len(streak_days)]].date,
            end_date   |-> ds[streak_days[1]].date]

\* The locals of calculate_longest_streak before its loop; None is <<>>,
\* Some(x) is <<x>>.
LongestInit ==
    [longest |-> EmptyStreak, current_start |-> <<>>, current_count |-> 0,
     last_date |-> <<>>]

\* A scan that extends the running streak over gaps.
IsConsecutive_AnyLater(last_date, date) ==
    last_date # <<>> /\ date > last_date[1]

\* A scan that takes the day after next for the consecutive one.
IsConsecutive_DayAfterNext(last_date, date) ==
    last_date # <<>> /\ date = last_date[1] + 2

\* last_date.map(|ld| date == ld + Duration::days(1)).unwrap_or(false)
IsConsecutive(last_date, date) ==
    last_date # <<>> /\ date = last_date[1] + 1

\* An update that also takes a running streak as long as the best seen.
BeatsLongest_OrEqual(current_count, longest_count) ==
    current_count >= longest_count

\* "Update longest if current beats it".
BeatsLongest(current_count, longest_count) == current_count > longest_count

\* One iteration of the loop of calculate_longest_streak on record day.
LongestStep(st, day) ==
    IF ~ParseOk(day.date) THEN st
    ELSE
      LET date == DateValue(day.date) IN
      IF day.count > 0 THEN
        LET is_consecutive == IsConsecutive(st.last_date, date)
            continues == is_consecutive /\ st.current_start # <<>>
            start == IF continues THEN st.current_start ELSE <<day.date>>
            count == IF continues THEN st.current_count + 1 ELSE 1
        IN  [longest |->
                IF BeatsLongest(count, st.longest.count)
                THEN [count |-> count, start_date |-> start[1],
                      end_date |-> day.date]
                ELSE st.longest,
             current_start |-> start,
             current_count |-> count,
             last_date |-> <<date>>]
      ELSE [st EXCEPT !.current_start = <<>>, !.current_count = 0,
                      !.last_date = <<date>>]

\* The locals of calculate_longest_streak on entry and after each of the
\* first n iterations, in order.
RECURSIVE LongestTrace(_, _)
LongestTrace(ds, n) ==
    IF n = 0 THEN <<LongestInit>>
    ELSE LET trace == LongestTrace(ds, n - 1)
         IN  Append(trace, LongestStep(trace[n], ds[n]))

\* The locals of calculate_longest_streak after the first n iterations.
LongestScan(ds, n) == LongestTrace(ds, n)[n + 1]

calculate_longest_streak(ds) ==
    IF ds = <<>> THEN EmptyStreak ELSE LongestScan(ds, Len(ds)).longest

\* calculate_stats; today is what chrono::Local::now() gives inside
\* calculate_current_streak.
calculate_stats(ds, today) ==
    [total_contributions |-> SumCounts(ds),
     best_day            |-> BestDayOf(ds),
     average_per_day     |-> AveragePerDay(SumCounts(ds), Len(ds)),
     current_streak      |-> calculate_current_streak(ds, today),
     longest_streak      |-> calculate_longest_streak(ds)]

-----------------------------------------------------------------------------
(* parser.rs: week grouping                                                *)

\* A grouper whose weeks begin on Monday.
StartsNewWeek_Monday(weekday, current_week) ==
    weekday = 1 /\ current_week # <<>>

\* "If it's Sunday and we have days accumulated, start a new week".
StartsNewWeek(weekday, current_week) == weekday = 0 /\ current_week # <<>>

\* A loop in which a record whose date does not parse closes the open week.
RECURSIVE GroupScan_BadDateCloses(_, _)
GroupScan_BadDateCloses(ds, n) ==
    IF n = 0 THEN [weeks |-> <<>>, current_week |-> <<>>]
    ELSE
      LET acc == GroupScan_BadDateCloses(ds, n - 1)
          day == ds[n]
      IN
      IF ~ParseOk(day.date)
      THEN IF acc.current_week = <<>> THEN acc
           ELSE [weeks |-> Append(acc.weeks, [days |-> acc.current_week]),
                 current_week |-> <<>>]
      ELSE
        LET weekday == WeekdayFromSunday(DateValue(day.date)) IN
        IF StartsNewWeek(weekday, acc.current_week)
        THEN [weeks |-> Append(acc.weeks, [days |-> acc.current_week]),
              current_week |-> <<day>>]
        ELSE [acc EXCEPT !.current_week = Append(acc.current_week, day)]

\* The loop of group_into_weeks: acc.weeks and acc.current_week after the
\* first n records.
RECURSIVE GroupScan(_, _)
GroupScan(ds, n) ==
    IF n = 0 THEN [weeks |-> <<>>, current_week |-> <<>>]
    ELSE
      LET acc == GroupScan(ds, n - 1)
          day == ds[n]
      IN
      IF ~ParseOk(day.date) THEN acc
      ELSE
        LET weekday == WeekdayFromSunday(DateValue(day.date)) IN
        IF StartsNewWeek(weekday, acc.current_week)
        THEN [weeks |-> Append(acc.weeks, [days |-> acc.current_week]),
              current_week |-> <<day>>]
        ELSE [acc EXCEPT !.current_week = Append(acc.current_week, day)]

\* A grouper that forgets the final partial week.
group_into_weeks_NoFinal(ds) ==
    IF ds = <<>> THEN <<>> ELSE GroupScan(ds, Len(ds)).weeks

group_into_weeks(ds) ==
    IF ds = <<>> THEN <<>>
    ELSE
      LET acc == GroupScan(ds, Len(ds)) IN
      IF acc.current_week # <<>>
      THEN Append(acc.weeks, [days |-> acc.current_week])
      ELSE acc.weeks

-----------------------------------------------------------------------------
(* parser.rs: extraction                                                   *)
(*                                                                         *)
(* The text is a sequence of tokens, the pieces the two patterns tell      *)
(* apart:                                                                  *)
(*   [t |-> "date", date |-> s]    data-date="YYYY-MM-DD"                  *)
(*   [t |-> "level", level |-> n]  data-level="N", one digit               *)
(*   [t |-> "gt"], [t |-> "lt"]    the characters > and <                  *)
(*   [t |-> "count", count |-> n]  N contribution, after white space; a    *)
(*                                 number of digits too large for u32 is   *)
(*                                 written n = -1                          *)
(*   [t |-> "none"]                No contributions                        *)
(*   [t |-> "text"]                any other text without < and >          *)
(***************************************************************************)

\* str::parse::<u32>() returns Ok for the digits.
FitsU32(n) == n >= 0

Min(S) == CHOOSE x \in S : \A y \in S : x <= y

\* A pattern with .*? for [^>]*?: the nearest data-level="N" of the text,
\* whatever tag it is in.
LevelAfter_AcrossElements(text, p) ==
    LET ends == { q \in (p + 1)..Len(text) : text[q].t = "level" }
    IN  IF ends = {} THEN 0
        ELSE CHOOSE q \in ends : \A r \in ends : q <= r

\* The level token that ends the first pattern begun at date token p:
\* [^>]*? reaches the nearest data-level="N" with no > before it (0: none).
LevelAfter(text, p) ==
    LET ends == { q \in (p + 1)..Len(text) :
                    /\ text[q].t = "level"
                    /\ \A r \in (p + 1)..(q - 1) : text[r].t # "gt" }
    IN  IF ends = {} THEN 0 ELSE Min(ends)

\* date_level_re.captures_iter(html) from token from on: the matches, left
\* to right and not overlapping, as (date, level).
RECURSIVE DateLevelCaptures(_, _)
DateLevelCaptures(text, from) ==
    LET starts == { p \in from..Len(text) :
                      text[p].t = "date" /\ LevelAfter(text, p) # 0 }
    IN  IF starts = {} THEN <<>>
        ELSE LET p == Min(starts)
                 q == LevelAfter(text, p)
             IN  <<[date |-> text[p].date, level |-> text[q].level]>>
                   \o DateLevelCaptures(text, q + 1)

\* The second pattern begun at date token p: [^>]*?> stops at the nearest >;
\* then the first alternative reaches the nearest "N contribution" with no <
\* before it, and failing that the second wants "No contributions" right
\* after the >.  The result is None or Some of the last token of the match
\* and the second capture group (None for the second alternative).
CountMatch(text, p) ==
    LET gts == { g \in (p + 1)..Len(text) : text[g].t = "gt" } IN
    IF gts = {} THEN None
    ELSE
      LET g == Min(gts)
          cs == { c \in (g + 1)..Len(text) :
                    /\ text[c].t = "count"
                    /\ \A r \in (g + 1)..(c - 1) : text[r].t # "lt" }
      IN  IF cs # {}
          THEN Some([end |-> Min(cs), group2 |-> Some(text[Min(cs)].count)])
          ELSE IF g + 1 <= Len(text) /\ text[g + 1].t = "none"
          THEN Some([end |-> g + 1, group2 |-> None])
          ELSE None

\* cap.get(2).and_then(|m| m.as_str().parse().ok()).unwrap_or(0) for u32
ParseCount(group2) ==
    IF group2 = None THEN 0
    ELSE IF FitsU32(group2[1]) THEN group2[1] ELSE 0

\* count_re.captures_iter(html) from token from on, as (date, count).
RECURSIVE CountCaptures(_, _)
CountCaptures(text, from) ==
    LET starts == { p \in from..Len(text) :
                      text[p].t = "date" /\ CountMatch(text, p) # None }
    IN  IF starts = {} THEN <<>>
        ELSE LET p == Min(starts)
                 m == CountMatch(text, p)[1]
             IN  <<[date |-> text[p].date, count |-> ParseCount(m.group2)]>>
                   \o CountCaptures(text, m.end + 1)

\* count_map after the first pass: a later insert of a date replaces the
\* earlier one.
CountMap(caps) ==
    [d \in { caps[i].date : i \in 1..Len(caps) } |->
        LET last == CHOOSE i \in 1..Len(caps) :
                      /\ caps[i].date = d
                      /\ \A j \in (i + 1)..Len(caps) : caps[j].date # d
        IN  caps[last].count]

\* An estimate that takes the level for the count.
estimate_count_from_level_Identity(level) == level

estimate_count_from_level(level) ==
    CASE level = 0 -> 0
      [] level = 1 -> 1
      [] level = 2 -> 3
      [] level = 3 -> 6
      [] level = 4 -> 10
      [] OTHER -> 0

\* A second pass that never looks the date up in count_map.
DayOfCapture_EstimateOnly(cap, count_map) ==
    ContributionDay(cap.date, estimate_count_from_level(cap.level), cap.level)

\* The record the second pass pushes for one capture.
DayOfCapture(cap, count_map) ==
    ContributionDay(cap.date,
                    IF cap.date \in DOMAIN count_map
                    THEN count_map[cap.date]
                    ELSE estimate_count_from_level(cap.level),
                    cap.level)

\* a.date.cmp(&b.date) is not Greater: the byte order of two date strings.
StringLeq(a, b) ==
    \/ a[1] < b[1]
    \/ a[1] = b[1] /\ a[2] < b[2]
    \/ a[1] = b[1] /\ a[2] = b[2] /\ a[3] <= b[3]

\* An extractor that leaves the records in the order of the text.
SortByDate_TextOrder(ds) == ds

\* days.sort_by(|a, b| a.date.cmp(&b.date)): a stable sort.
RECURSIVE SortByDate(_)
SortByDate(ds) ==
    IF ds = <<>> THEN <<>>
    ELSE
      LET n == Len(ds)
          rest == SortByDate(SubSeq(ds, 1, n - 1))
          k == Cardinality({ i \in 1..(n - 1) :
                               StringLeq(rest[i].date, ds[n].date) })
      IN  SubSeq(rest, 1, k) \o <<ds[n]>> \o SubSeq(rest, k + 1, n - 1)

Ok(x) == [ok |-> TRUE, value |-> x]
Err(e) == [ok |-> FALSE, error |-> e]

\* An extractor that returns Ok also when it pushed no record.
parse_contribution_html_NoEmptyCheck(text) ==
    LET count_map == CountMap(CountCaptures(text, 1))
        caps == DateLevelCaptures(text, 1)
        pushed == [i \in 1..Len(caps) |-> DayOfCapture(caps[i], count_map)]
    IN  Ok(SortByDate(pushed))

parse_contribution_html(text) ==
    LET count_map == CountMap(CountCaptures(text, 1))
        caps == DateLevelCaptures(text, 1)
        pushed == [i \in 1..Len(caps) |-> DayOfCapture(caps[i], count_map)]
        sorted == SortByDate(pushed)
    IN  IF sorted = <<>> THEN Err("No contribution data found in HTML")
        ELSE Ok(sorted)

-----------------------------------------------------------------------------
(* fetcher.rs                                                              *)

\* github::fetch_contributions from the response body on (lines 146..169):
\* the records are parsed, the statistics taken, the weeks grouped.  Of the
\* ContributionData the avatar URL and the time stamp are left out.
fetch_contributions(username, text, today) ==
    LET parsed == parse_contribution_html(text) IN
    IF ~parsed.ok THEN Err(parsed.error)
    ELSE Ok([user  |-> [username |-> username],
             weeks |-> group_into_weeks(parsed.value),
             stats |-> calculate_stats(parsed.value, today)])

-----------------------------------------------------------------------------
(* calculate_stats with the total kept at the width of u32                 *)

\* Half of a u32: a u32 is kept as its two 16-bit halves.
HalfWord == 65536

\* The u32 of the number n.
U32(n) == [hi |-> n \div HalfWord, lo |-> n % HalfWord]

\* a + b on u32: the wrapped sum, and whether the addition overflowed.
AddU32(a, b) ==
    LET lo == a.lo + b.lo
        hi == a.hi + b.hi + (lo \div HalfWord)
    IN  [overflow |-> hi >= HalfWord,
         value    |-> [hi |-> hi % HalfWord, lo |-> lo % HalfWord]]

\* days.iter().map(|d| d.count).sum() over the first n records: the wrapped
\* sum, and whether one of its additions overflowed.
RECURSIVE SumU32(_, _)
SumU32(ds, n) ==
    IF n = 0 THEN [overflow |-> FALSE, value |-> U32(0)]
    ELSE LET sum == SumU32(ds, n - 1)
             next == AddU32(sum.value, U32(ds[n].count))
         IN  [overflow |-> sum.overflow \/ next.overflow, value |-> next.value]

Panic(message) == [panic |-> TRUE, message |-> message]
Value(x) == [panic |-> FALSE, value |-> x]

\* calculate_stats in a build with (debug) or without (release) overflow
\* checks: the sum of line 296 panics on overflow in the first and wraps in
\* the second.
calculate_stats_u32(ds, today, overflow_checks) ==
    LET sum == SumU32(ds, Len(ds)) IN
    IF sum.overflow /\ overflow_checks
    THEN Panic("attempt to add with overflow")
    ELSE Value([total_contributions |-> sum.value,
                best_day            |-> BestDayOf(ds),
                average_per_day     |-> AveragePerDay(sum.value, Len(ds)),
                current_streak      |-> calculate_current_streak(ds, today),
                longest_streak      |-> calculate_longest_streak(ds)])

\* What the request of github::fetch_contributions can end with: no
\* response, a status that is no success, a body that cannot be read, or a
\* body.
Responses(bodies) ==
    { [kind |-> "send_error"], [kind |-> "status"], [kind |-> "body_error"] }
        \cup { [kind |-> "body", text |-> b] : b \in bodies }

\* github::fetch_contributions(username), whole, by the response it gets.
github_fetch_contributions(username, response, today) ==
    CASE response.kind = "send_error" ->
             Err("Failed to fetch contributions")
      [] response.kind = "status" ->
             Err("GitHub returned status 404: User may not exist")
      [] response.kind = "body_error" ->
             Err("Failed to read response")
      [] response.kind = "body" ->
             fetch_contributions(username, response.text, today)

-----------------------------------------------------------------------------
(* The inputs of the engine and the grouper                                *)

\* The date strings of the records Init draws, in byte order: Thursday
\* 2024-02-29 to Monday 2024-03-04, and 2024-02-30, which has the shape of a
\* date and is none.
DateStrings ==
    { <<2024, 2, 29>>, <<2024, 2, 30>>, <<2024, 3, 1>>, <<2024, 3, 2>>,
      <<2024, 3, 3>>, <<2024, 3, 4>> }

Counts == {0, 1, 2}

\* The level GitHub shows for a count of the model.
LevelFor(count) == count

\* The date the clock shows first: Sunday 2024-03-03.
FirstClock == DateValue(<<2024, 3, 3>>)

\* The day lists Init draws: every list the extractor's sort can leave, of
\* at most MaxLen records.
DayLists ==
    UNION { { [i \in 1..n |-> ContributionDay(d[i], c[i], LevelFor(c[i]))] :
                d \in { f \in [1..n -> DateStrings] :
                          \A i \in 1..(n - 1) : StringLeq(f[i], f[i + 1]) },
                c \in [1..n -> Counts] } : n \in 0..MaxLen }

-----------------------------------------------------------------------------
(* The engine and the grouper as state machines                            *)

\* A command slot with no command in it.
Idle == [pc |-> "idle"]

\* No calculate_longest_streak under way, and lib.rs as its statics begin:
\* both None, no command invoked, the setup hook not yet run.
AppIdle ==
    /\ scan = None
    /\ CONTRIBUTION_CACHE = None
    /\ CURRENT_USERNAME = None
    /\ commands = [c \in 1..MaxCommands |-> Idle]
    /\ reply = None
    /\ started = FALSE
    /\ last_stored = None
    /\ last_completed = None

Init ==
    /\ days \in DayLists
    /\ clock = FirstClock
    /\ stats = None
    /\ weeks = None
    /\ html = <<>>
    /\ fetched = None
    /\ parse_result = None
    /\ outcome = None
    /\ AppIdle

\* The local date moves on to the next day.
Tick ==
    /\ clock < FirstClock + MaxTicks
    /\ clock' = clock + 1
    /\ UNCHANGED <<days, stats, weeks, html, fetched, parse_result, outcome, scan, app_vars>>

\* A call of calculate_stats(&days); today is the date the call read.
CalculateStats ==
    /\ stats' = Some([today |-> clock, result |-> calculate_stats(days, clock)])
    /\ UNCHANGED <<days, clock, weeks, html, fetched, parse_result, outcome, scan, app_vars>>

\* A call of group_into_weeks(days.clone()).
GroupIntoWeeks ==
    /\ weeks' = Some(group_into_weeks(days))
    /\ UNCHANGED <<days, clock, stats, html, fetched, parse_result, outcome, scan, app_vars>>

\* The engine: calls of calculate_stats on one day list as the days pass.
Next == Tick \/ CalculateStats

Spec == Init /\ [][Next]_vars

\* The grouper: group_into_weeks on one day list.
NextWeeks == GroupIntoWeeks

SpecWeeks == Init /\ [][NextWeeks]_vars

-----------------------------------------------------------------------------
(* The forward scan of calculate_longest_streak, iteration by iteration    *)

\* calculate_longest_streak(&days) is called: its locals are set up.
LongestStreakCall ==
    /\ scan = None
    /\ scan' = Some([n |-> 0, locals |-> LongestInit])
    /\ UNCHANGED <<days, clock, stats, weeks, html, fetched, parse_result,
                   outcome, app_vars>>

\* One iteration of the loop over days.iter().
LongestStreakIterate ==
    /\ scan # None
    /\ scan[1].n < Len(days)
    /\ scan' = Some([n      |-> scan[1].n + 1,
                     locals |-> LongestStep(scan[1].locals,
                                            days[scan[1].n + 1])])
    /\ UNCHANGED <<days, clock, stats, weeks, html, fetched, parse_result,
                   outcome, app_vars>>

NextScan == LongestStreakCall \/ LongestStreakIterate

SpecScan == Init /\ [][NextScan]_vars

-----------------------------------------------------------------------------
(* The commands of lib.rs as a state machine                               *)

\* The usernames the frontend asks for and saves in the settings.
Usernames == {"octocat", "torvalds"}

\* What the "username" key of the settings store may hold at startup:
\* nothing, the empty string or a username.
SavedNames == {None, Some("")} \cup { Some(u) : u \in Usernames }

\* The bodies GitHub answers with: one without a day element, one with the
\* element of Saturday 2024-03-02.
Bodies ==
    { <<>>,
      <<[t |-> "lt"], [t |-> "date", date |-> <<2024, 3, 2>>],
        [t |-> "level", level |-> 2], [t |-> "gt"]>> }

InitApp ==
    /\ days = <<>>
    /\ clock = FirstClock
    /\ stats = None
    /\ weeks = None
    /\ html = <<>>
    /\ fetched = None
    /\ parse_result = None
    /\ outcome = None
    /\ AppIdle

core_vars ==
    <<days, clock, stats, weeks, html, fetched, parse_result, outcome, scan>>

Reply(command, result) == Some([command |-> command, result |-> result])

\* What get_cached_contributions returns: an Option<ContributionData>.
Cached(option) == [option |-> option]

\* The setup hook calls load_saved_username(app.handle()).
LoadSavedUsername(saved) ==
    /\ ~started
    /\ started' = TRUE
    /\ CURRENT_USERNAME' =
          (IF saved # None /\ saved[1] # "" THEN Some(saved[1])
           ELSE CURRENT_USERNAME)
    /\ UNCHANGED <<CONTRIBUTION_CACHE, commands, reply, last_stored,
                   last_completed, core_vars>>

\* The frontend invokes fetch_contributions(username): the command runs up
\* to the await of line 154.
FetchContributionsCommand(c, username) ==
    /\ started
    /\ commands[c] = Idle
    /\ commands' = [commands EXCEPT
                      ![c] = [pc |-> "fetching", username |-> username,
                              via |-> "fetch_contributions"]]
    /\ UNCHANGED <<CONTRIBUTION_CACHE, CURRENT_USERNAME, reply, started,
                   last_stored, last_completed, core_vars>>

\* A refresh that fetches for the user of the cached data.
RefreshContributions_CachedUser(c) ==
    /\ started
    /\ commands[c] = Idle
    /\ IF CONTRIBUTION_CACHE = None
       THEN /\ reply' = Reply("refresh_contributions", Err("No username set"))
            /\ UNCHANGED commands
       ELSE /\ commands' = [commands EXCEPT
                              ![c] = [pc |-> "fetching",
                                      username |->
                                        CONTRIBUTION_CACHE[1].user.username,
                                      via |-> "refresh_contributions"]]
            /\ UNCHANGED reply
    /\ UNCHANGED <<CONTRIBUTION_CACHE, CURRENT_USERNAME, started,
                   last_stored, last_completed, core_vars>>

\* The frontend invokes refresh_contributions: "No username set", or
\* fetch_contributions(username) for the stored username.
RefreshContributions(c) ==
    /\ started
    /\ commands[c] = Idle
    /\ IF CURRENT_USERNAME = None
       THEN /\ reply' = Reply("refresh_contributions", Err("No username set"))
            /\ UNCHANGED commands
       ELSE /\ commands' = [commands EXCEPT
                              ![c] = [pc |-> "fetching",
                                      username |-> CURRENT_USERNAME[1],
                                      via |-> "refresh_contributions"]]
            /\ UNCHANGED reply
    /\ UNCHANGED <<CONTRIBUTION_CACHE, CURRENT_USERNAME, started,
                   last_stored, last_completed, core_vars>>

\* A command that empties the cache when its fetch fails.
FetchFails_ClearsCache(c, response) ==
    /\ commands[c].pc = "fetching"
    /\ LET got == github_fetch_contributions(commands[c].username, response,
                                             clock)
       IN  /\ ~got.ok
           /\ reply' = Reply("fetch_contributions", got)
    /\ commands' = [commands EXCEPT ![c] = Idle]
    /\ CONTRIBUTION_CACHE' = None
    /\ UNCHANGED <<CURRENT_USERNAME, started, last_stored, last_completed,
                   core_vars>>

\* github::fetch_contributions returns Err to command c: the ? of line 154
\* returns it to the frontend.
FetchFails(c, response) ==
    /\ commands[c].pc = "fetching"
    /\ LET got == github_fetch_contributions(commands[c].username, response,
                                             clock)
       IN  /\ ~got.ok
           /\ reply' = Reply("fetch_contributions", got)
    /\ commands' = [commands EXCEPT ![c] = Idle]
    /\ UNCHANGED <<CONTRIBUTION_CACHE, CURRENT_USERNAME, started,
                   last_stored, last_completed, core_vars>>

\* github::fetch_contributions returns Ok(data) to command c.
FetchSucceeds(c, response) ==
    /\ commands[c].pc = "fetching"
    /\ LET got == github_fetch_contributions(commands[c].username, response,
                                             clock)
       IN  /\ got.ok
           /\ commands' = [commands EXCEPT
                             ![c] = [pc |-> "caching",
                                     username |-> commands[c].username,
                                     data |-> got.value]]
    /\ UNCHANGED <<CONTRIBUTION_CACHE, CURRENT_USERNAME, reply, started,
                   last_stored, last_completed, core_vars>>

\* Command c takes the write lock of the cache and stores its data (lines
\* 157..159).
WriteCache(c) ==
    /\ commands[c].pc = "caching"
    /\ CONTRIBUTION_CACHE' = Some(commands[c].data)
    /\ last_stored' = Some(commands[c].data)
    /\ commands' = [commands EXCEPT ![c].pc = "naming"]
    /\ UNCHANGED <<CURRENT_USERNAME, reply, started, last_completed,
                   core_vars>>

\* Command c takes the write lock of the username, stores its username
\* (lines 162..164) and returns Ok(data).
WriteUsername(c) ==
    /\ commands[c].pc = "naming"
    /\ CURRENT_USERNAME' = Some(commands[c].username)
    /\ reply' = Reply("fetch_contributions", Ok(commands[c].data))
    /\ last_completed' = Some(commands[c].data)
    /\ commands' = [commands EXCEPT ![c] = Idle]
    /\ UNCHANGED <<CONTRIBUTION_CACHE, started, last_stored, core_vars>>

\* save_settings(app, settings): the store is written and saved, which may
\* fail, and then the username of the settings is stored.
SaveSettings(username, saved) ==
    /\ started
    /\ IF saved
       THEN /\ CURRENT_USERNAME' = Some(username)
            /\ reply' = Reply("save_settings", Ok(<<>>))
       ELSE /\ reply' = Reply("save_settings", Err("store"))
            /\ UNCHANGED CURRENT_USERNAME
    /\ UNCHANGED <<CONTRIBUTION_CACHE, commands, started, last_stored,
                   last_completed, core_vars>>

\* A get_cached_contributions that takes the data out of the cache.
GetCachedContributions_Takes ==
    /\ started
    /\ reply' = Reply("get_cached_contributions", Cached(CONTRIBUTION_CACHE))
    /\ CONTRIBUTION_CACHE' = None
    /\ UNCHANGED <<CURRENT_USERNAME, commands, started, last_stored,
                   last_completed, core_vars>>

\* get_cached_contributions(): a clone of what the cache holds.
GetCachedContributions ==
    /\ started
    /\ reply' = Reply("get_cached_contributions", Cached(CONTRIBUTION_CACHE))
    /\ UNCHANGED <<CONTRIBUTION_CACHE, CURRENT_USERNAME, commands, started,
                   last_stored, last_completed, core_vars>>

NextApp ==
    \/ \E saved \in SavedNames : LoadSavedUsername(saved)
    \/ \E c \in 1..MaxCommands, username \in Usernames :
          FetchContributionsCommand(c, username)
    \/ \E c \in 1..MaxCommands : RefreshContributions(c)
    \/ \E c \in 1..MaxCommands, response \in Responses(Bodies) :
          FetchFails(c, response)
    \/ \E c \in 1..MaxCommands, response \in Responses(Bodies) :
          FetchSucceeds(c, response)
    \/ \E c \in 1..MaxCommands : WriteCache(c)
    \/ \E c \in 1..MaxCommands : WriteUsername(c)
    \/ \E username \in Usernames, saved \in BOOLEAN :
          SaveSettings(username, saved)
    \/ GetCachedContributions

SpecApp == InitApp /\ [][NextApp]_vars

-----------------------------------------------------------------------------
(* The engine on counts of the whole u32 range as a state machine          *)

\* A count of the upper range of u32: the largest the integers of the
\* model hold, 2^31 - 1.
WideCount == 2147483647

\* The date strings of the records InitWide draws: Friday 2024-03-01 to
\* Sunday 2024-03-03.
WideDates == { <<2024, 3, 1>>, <<2024, 3, 2>>, <<2024, 3, 3>> }

\* The day lists InitWide draws: sorted, of at most MaxLen records, with
\* counts 0, 1 and WideCount.
WideDayLists ==
    UNION { { [i \in 1..n |-> ContributionDay(d[i], c[i], 0)] :
                d \in { f \in [1..n -> WideDates] :
                          \A i \in 1..(n - 1) : StringLeq(f[i], f[i + 1]) },
                c \in [1..n -> {0, 1, WideCount}] } : n \in 0..MaxLen }

InitWide ==
    /\ days \in WideDayLists
    /\ clock = FirstClock
    /\ stats = None
    /\ weeks = None
    /\ html = <<>>
    /\ fetched = None
    /\ parse_result = None
    /\ outcome = None
    /\ AppIdle

\* A call of calculate_stats(&days) in a build with or without overflow
\* checks.
CalculateStatsU32 ==
    /\ outcome = None
    /\ \E overflow_checks \in BOOLEAN :
          LET ended == calculate_stats_u32(days, clock, overflow_checks) IN
          /\ outcome' = Some(ended)
          /\ stats' = (IF ended.panic THEN stats
                       ELSE Some([today |-> clock, result |-> ended.value]))
    /\ UNCHANGED <<days, clock, weeks, html, fetched, parse_result, scan, app_vars>>

NextWide == CalculateStatsU32

SpecWide == InitWide /\ [][NextWide]_vars

-----------------------------------------------------------------------------
(* The fetch of one response body as a state machine                       *)

\* The tokens of the bodies InitFetch draws: Saturday 2024-03-02, Sunday
\* 2024-03-03 and 2024-02-30, which is no day of the calendar.
HtmlTokens ==
    { [t |-> "date", date |-> <<2024, 3, 2>>],
      [t |-> "date", date |-> <<2024, 3, 3>>],
      [t |-> "date", date |-> <<2024, 2, 30>>],
      [t |-> "level", level |-> 0],
      [t |-> "level", level |-> 2],
      [t |-> "level", level |-> 7],
      [t |-> "gt"], [t |-> "lt"],
      [t |-> "count", count |-> 5],
      [t |-> "none"],
      [t |-> "text"] }

Htmls == UNION { [1..n -> HtmlTokens] : n \in 0..MaxTokens }

TheUser == "octocat"

InitFetch ==
    /\ html \in Htmls
    /\ clock = FirstClock
    /\ days = <<>>
    /\ stats = None
    /\ weeks = None
    /\ fetched = None
    /\ parse_result = None
    /\ outcome = None
    /\ AppIdle

\* github::fetch_contributions(TheUser) once the body html has arrived; days
\* keeps the records the extractor returned to it.
FetchContributions ==
    /\ fetched = None
    /\ fetched' = Some(fetch_contributions(TheUser, html, clock))
    /\ days' = (IF parse_contribution_html(html).ok
                THEN parse_contribution_html(html).value ELSE days)
    /\ UNCHANGED <<clock, stats, weeks, html, parse_result, outcome, scan, app_vars>>

NextFetch == FetchContributions

SpecFetch == InitFetch /\ [][NextFetch]_vars

-----------------------------------------------------------------------------
(* The extractor on one response body as a state machine                   *)

\* A call of parse_contribution_html(&html).
ParseContributionHtml ==
    /\ parse_result = None
    /\ parse_result' = Some(parse_contribution_html(html))
    /\ UNCHANGED <<days, clock, stats, weeks, html, fetched, outcome, scan, app_vars>>

NextParse == ParseContributionHtml

\* The extractor on any body of at most MaxTokens tokens.
SpecParse == InitFetch /\ [][NextParse]_vars

-----------------------------------------------------------------------------
(* Vocabulary of the properties                                            *)

\* The records of ds whose date is a day of the calendar, in order: the
\* records the loops of the engine and of the grouper look at.
RECURSIVE Dated(_)
Dated(ds) ==
    IF ds = <<>> THEN <<>>
    ELSE IF ParseOk(ds[1].date) THEN <<ds[1]>> \o Dated(Tail(ds))
    ELSE Dated(Tail(ds))

\* The calendar day of the i-th record of a list of dated records.
DayOf(v, i) == DateValue(v[i].date)

\* A list of dated records in chronological order.
Chronological(v) ==
    /\ \A i \in 1..Len(v) : ParseOk(v[i].date)
    /\ \A i \in 1..(Len(v) - 1) : DayOf(v, i) <= DayOf(v, i + 1)

\* A chronological list with no date twice.
StrictlyChronological(v) ==
    /\ \A i \in 1..Len(v) : ParseOk(v[i].date)
    /\ \A i \in 1..(Len(v) - 1) : DayOf(v, i) < DayOf(v, i + 1)

\* The index of the last active record of v (0 when there is none).
LastActive(v) ==
    IF \E i \in 1..Len(v) : v[i].count > 0
    THEN CHOOSE i \in 1..Len(v) :
            /\ v[i].count > 0
            /\ \A j \in (i + 1)..Len(v) : v[j].count = 0
    ELSE 0

\* Record i of v is active and dated the day before record i + 1.
StepsBack(v, i) == v[i].count > 0 /\ DayOf(v, i) = DayOf(v, i + 1) - 1

\* Records a..b of v are active and dated on consecutive calendar days.
IsRun(v, a, b) ==
    /\ \A i \in a..b : v[i].count > 0
    /\ \A i \in a..(b - 1) : DayOf(v, i + 1) = DayOf(v, i) + 1

\* The length of the longest run of v (0 when no record is active).
MaxRun(v) ==
    CHOOSE n \in 0..Len(v) :
          /\ n = 0 \/ \E a \in 1..(Len(v) - n + 1) : IsRun(v, a, a + n - 1)
          /\ \A a, b \in 1..Len(v) : (a <= b /\ IsRun(v, a, b)) => b - a + 1 <= n

\* 2024-01-01 and the n - 1 days after it, with the given counts.
JanuaryDays(counts) ==
    [i \in 1..Len(counts) |-> ContributionDay(<<2024, 1, i>>, counts[i], 0)]

StatsDone == stats # None
Result == stats[1].result
Today == stats[1].today

-----------------------------------------------------------------------------
(* C1: the current-streak walk                                             *)

\* Counts [3,5,2,1,0] on 2024-01-01..05 with today = 2024-01-05.
BoundaryScenario ==
    calculate_current_streak(JanuaryDays(<<3, 5, 2, 1, 0>>),
                             DateValue(<<2024, 1, 5>>))
      = [count |-> 4, start_date |-> <<2024, 1, 1>>,
         end_date |-> <<2024, 1, 4>>]

\* C1: once calculate_current_streak has accepted its first record (the last
\* active record), it accepts each earlier record exactly while that record
\* is dated one calendar day before the last accepted one and is active, and
\* stops at the first record that fails either condition; count is the
\* number of accepted records, start_date the earliest and end_date the most
\* recent accepted date; counts [3,5,2,1,0] on 2024-01-01..05 with today =
\* 2024-01-05 give 4, 2024-01-01..2024-01-04.
C1_CurrentStreakWalk ==
    /\ StatsDone =>
         LET v == Dated(days)
             r == Result.current_streak
             e == LastActive(v)
             k == r.count
         IN  k > 0 =>
               /\ e >= k
               /\ \A j \in 1..(k - 1) : StepsBack(v, e - j)
               /\ k = e \/ ~StepsBack(v, e - k)
               /\ r.start_date = v[e - k + 1].date
               /\ r.end_date = v[e].date
    /\ BoundaryScenario

\* The walk accepted two records and stopped at an active record that is
\* not dated the day before.
C1_Witness ==
    /\ StatsDone
    /\ Len(days) = 3
    /\ Result.current_streak.count = 2
    /\ days[1].count > 0
    /\ ParseOk(days[1].date)

-----------------------------------------------------------------------------
(* C2: when the current streak exists                                      *)

\* C2: for a chronologically sorted day list, current_streak is non-empty
\* if and only if the most recent active record is dated today or
\* yesterday (records without activity dated today or yesterday are passed
\* over), and a non-empty streak ends today or yesterday.
C2_CurrentStreakExists ==
    (StatsDone /\ Chronological(Dated(days))) =>
        LET v == Dated(days)
            r == Result.current_streak
            e == LastActive(v)
        IN  /\ r.count > 0 <=>
                 (e > 0 /\ DayOf(v, e) \in {Today, Today - 1})
            /\ r.count > 0 =>
                 /\ ParseOk(r.end_date)
                 /\ DateValue(r.end_date) \in {Today, Today - 1}

\* Today's record has no activity, is passed over, and the streak ends
\* yesterday.
C2_Witness ==
    /\ StatsDone
    /\ Len(days) >= 2
    /\ ParseOk(days[Len(days)].date)
    /\ DateValue(days[Len(days)].date) = Today
    /\ days[Len(days)].count = 0
    /\ Result.current_streak.count > 0
    /\ DateValue(Result.current_streak.end_date) = Today - 1

-----------------------------------------------------------------------------
(* C3: the longest streak                                                  *)

\* The 18 days from 2024-01-01 with counts [5,0,0,1 x 11,0,1,1,1] and today
\* on the last of them.
DivergenceScenario ==
    LET ds == JanuaryDays(<<5, 0, 0, 1, 1, 1, 1, 1, 1, 1, 1, 1, 1, 1, 0,
                            1, 1, 1>>)
        st == calculate_stats(ds, DateValue(<<2024, 1, 18>>))
    IN  /\ st.longest_streak =
             [count |-> 11, start_date |-> <<2024, 1, 4>>,
              end_date |-> <<2024, 1, 14>>]
        /\ st.current_streak.count = 3

\* C3: longest_streak.count is the maximum length over the runs of active
\* records on consecutive calendar days (0 when no record is active), and
\* start_date and end_date are the first and last date of such a run; the
\* 18 days from 2024-01-01 with counts [5,0,0,1 x 11,0,1,1,1] and today on
\* the last give longest 11 (2024-01-04..2024-01-14) and current 3.
C3_LongestStreak ==
    /\ StatsDone =>
         LET v == Dated(days)
             l == Result.longest_streak
         IN  /\ l.count = MaxRun(v)
             /\ l.count = 0 => l = EmptyStreak
             /\ l.count > 0 =>
                  \E a \in 1..(Len(v) - l.count + 1) :
                     /\ IsRun(v, a, a + l.count - 1)
                     /\ l.start_date = v[a].date
                     /\ l.end_date = v[a + l.count - 1].date
    /\ DivergenceScenario

\* A run of two days is the longest, and another active record is not part
\* of it.
C3_Witness ==
    /\ StatsDone
    /\ Len(days) = 3
    /\ \A i \in 1..3 : days[i].count > 0 /\ ParseOk(days[i].date)
    /\ Result.longest_streak.count = 2

-----------------------------------------------------------------------------
(* C4: the best day among equal maxima                                     *)

\* The indices of the records of ds that carry the maximum count.
MaxIndices(ds) ==
    { i \in 1..Len(ds) : \A j \in 1..Len(ds) : ds[j].count <= ds[i].count }

FirstMax(ds) == CHOOSE i \in MaxIndices(ds) : \A j \in MaxIndices(ds) : i <= j
LastMax(ds) == CHOOSE i \in MaxIndices(ds) : \A j \in MaxIndices(ds) : j <= i

\* Several records share the maximum count.
Tie(ds) == Cardinality(MaxIndices(ds)) >= 2

\* C4 as the specification states it: among several records with the
\* maximum count, best_day is the one met first in the given order.
C4_BestDayFirst ==
    (StatsDone /\ Tie(days)) =>
        Result.best_day = [date |-> days[FirstMax(days)].date,
                           count |-> days[FirstMax(days)].count]

\* C4, amended: among several records with the maximum count, best_day is
\* the one met last in the given order.
C4_BestDayLast ==
    (StatsDone /\ Tie(days)) =>
        Result.best_day = [date |-> days[LastMax(days)].date,
                           count |-> days[LastMax(days)].count]

\* Two records on different dates share a positive maximum.
C4_Witness ==
    /\ StatsDone
    /\ Tie(days)
    /\ days[FirstMax(days)].date # days[LastMax(days)].date
    /\ days[LastMax(days)].count > 0

-----------------------------------------------------------------------------
(* C5: determinism of the engine                                           *)

\* C5: two runs of calculate_stats on the same day list return the same
\* Statistics: the result depends on nothing but the inputs the caller
\* gives, because the engine reads no clock.
C5_Deterministic ==
    [][(stats # None /\ stats' # None) => stats'[1].result = stats[1].result]_vars

-----------------------------------------------------------------------------
(* C6: one record per date                                                 *)

FetchedOk == fetched # None /\ fetched[1].ok

\* C6: within one result of parse_contribution_html no two records have the
\* same date.
C6_OneRecordPerDate ==
    FetchedOk =>
        \A i, j \in 1..Len(days) : days[i].date = days[j].date => i = j

-----------------------------------------------------------------------------
(* C7: the totals of the weeks and of the statistics                       *)

\* The sum of day.count over all days of all weeks.
RECURSIVE SumWeeks(_)
SumWeeks(ws) ==
    IF ws = <<>> THEN 0 ELSE SumCounts(ws[1].days) + SumWeeks(Tail(ws))

\* C7: for every successful fetch, the sum of day.count over the weeks
\* equals stats.total_contributions.
C7_TotalsAgree ==
    FetchedOk =>
        SumWeeks(fetched[1].value.weeks)
            = fetched[1].value.stats.total_contributions

-----------------------------------------------------------------------------
(* C8: grouping preserves the list                                         *)

WeeksDone == weeks # None
Weeks == weeks[1]

\* The day lists of the weeks, one after the other.
RECURSIVE ConcatWeeks(_)
ConcatWeeks(ws) ==
    IF ws = <<>> THEN <<>> ELSE ws[1].days \o ConcatWeeks(Tail(ws))

\* C8: for a chronologically sorted day list, the day lists of the weeks
\* returned by group_into_weeks, concatenated in order, are the input list.
C8_GroupingPreserves ==
    (WeeksDone /\ Chronological(days)) => ConcatWeeks(Weeks) = days

\* A sorted list of three records was split into several weeks.
C8_Witness ==
    /\ WeeksDone
    /\ Chronological(days)
    /\ Len(days) = 3
    /\ Len(Weeks) >= 2

-----------------------------------------------------------------------------
(* C9: week boundaries                                                     *)

FirstDay(week) == week.days[1]
LastDay(week) == week.days[Len(week.days)]
WeekdayOf(day) == WeekdayFromSunday(DateValue(day.date))

\* The number of records in the first k weeks.
RECURSIVE RecordsIn(_, _)
RecordsIn(ws, k) ==
    IF k = 0 THEN 0 ELSE Len(ws[k].days) + RecordsIn(ws, k - 1)

\* C9 as the specification states it, on a sorted list with no date twice:
\* every week after the first begins with a Sunday record, and every week
\* before the last ends with a Saturday record or at the end of the source
\* data.
C9_WeekBoundariesStated ==
    (WeeksDone /\ StrictlyChronological(days)) =>
        /\ \A k \in 2..Len(Weeks) : WeekdayOf(FirstDay(Weeks[k])) = 0
        /\ \A k \in 1..(Len(Weeks) - 1) :
              \/ WeekdayOf(LastDay(Weeks[k])) = 6
              \/ RecordsIn(Weeks, k) = Len(days)

\* C9, amended: every week after the first begins with a Sunday record, and
\* every week before the last ends with a Saturday record whenever the list
\* has no gap there (the next record is dated the following day).
C9_WeekBoundaries ==
    WeeksDone =>
        /\ \A k \in 2..Len(Weeks) : WeekdayOf(FirstDay(Weeks[k])) = 0
        /\ \A k \in 1..(Len(Weeks) - 1) :
              DateValue(FirstDay(Weeks[k + 1]).date)
                    = DateValue(LastDay(Weeks[k]).date) + 1
                => WeekdayOf(LastDay(Weeks[k])) = 6

\* A week that ends on Saturday is followed by one that begins on Sunday.
C9_Witness ==
    /\ WeeksDone
    /\ Len(Weeks) >= 2
    /\ Len(Weeks[1].days) >= 2
    /\ WeekdayOf(LastDay(Weeks[1])) = 6
    /\ WeekdayOf(FirstDay(Weeks[2])) = 0

-----------------------------------------------------------------------------
(* C10: the size and the span of a week                                    *)

\* The Sunday that begins the calendar week of a record.
WeekStart(day) == DateValue(day.date) - WeekdayOf(day)

\* C10, on a sorted list with no date twice: every week returned by
\* group_into_weeks holds between 1 and 7 records, all of one
\* Sunday-to-Saturday calendar week; an empty input gives an empty output.
C10_OneCalendarWeek ==
    (WeeksDone /\ StrictlyChronological(days)) =>
        /\ days = <<>> => Weeks = <<>>
        /\ \A k \in 1..Len(Weeks) :
              /\ Len(Weeks[k].days) \in 1..7
              /\ \A i, j \in 1..Len(Weeks[k].days) :
                    WeekStart(Weeks[k].days[i]) = WeekStart(Weeks[k].days[j])

-----------------------------------------------------------------------------
(* The extractor on a body of day elements as a state machine              *)

\* The levels of the day elements: the five of the calendar and one digit
\* that is none of them.
ElementLevels == {0, 1, 2, 3, 4, 7}

\* The text of a day element: none, "5 contributions" or "No contributions".
ElementTexts ==
    { <<>>, <<[t |-> "count", count |-> 5]>>, <<[t |-> "none"]>> }

\* The day elements: <td data-date="D" data-level="L">text</td>.
DayElements ==
    { <<[t |-> "lt"], [t |-> "date", date |-> d],
        [t |-> "level", level |-> l], [t |-> "gt"]>>
        \o text \o <<[t |-> "lt"], [t |-> "gt"]>> :
      d \in { <<2024, 3, 2>>, <<2024, 3, 3>> }, l \in ElementLevels,
      text \in ElementTexts }

\* The elements es one after the other.
RECURSIVE Body(_)
Body(es) == IF es = <<>> THEN <<>> ELSE Head(es) \o Body(Tail(es))

InitElements ==
    /\ \E n \in 0..MaxElements : \E es \in [1..n -> DayElements] :
          html = Body(es)
    /\ clock = FirstClock
    /\ days = <<>>
    /\ stats = None
    /\ weeks = None
    /\ fetched = None
    /\ parse_result = None
    /\ outcome = None
    /\ AppIdle

\* The extractor on any body of at most MaxElements day elements.
SpecElements == InitElements /\ [][NextParse]_vars

-----------------------------------------------------------------------------
(* C11: the records come back in date order                                *)

ParseDone == parse_result # None
Parsed == parse_result[1]

\* The date strings a and b in ascending order, equal ones included.
DateOrder(a, b) ==
    \/ a[1] < b[1]
    \/ a[1] = b[1] /\ a[2] < b[2]
    \/ a[1] = b[1] /\ a[2] = b[2] /\ a[3] <= b[3]

\* C11: the records parse_contribution_html returns are sorted ascending by
\* date, whatever the order of the day elements in the text.
C11_SortedByDate ==
    (ParseDone /\ Parsed.ok) =>
        \A i \in 1..(Len(Parsed.value) - 1) :
            DateOrder(Parsed.value[i].date, Parsed.value[i + 1].date)

\* A body whose second day element is dated before its first, returned in
\* date order.
C11_Witness ==
    /\ ParseDone /\ Parsed.ok
    /\ Len(html) = 4 /\ html[1].t = "date" /\ html[3].t = "date"
    /\ html[1].date # html[3].date /\ DateOrder(html[3].date, html[1].date)
    /\ Len(Parsed.value) = 2
    /\ Parsed.value[1].date = html[3].date
    /\ Parsed.value[2].date = html[1].date

-----------------------------------------------------------------------------
(* C12: a literal count goes before the estimate                           *)

\* The positions of the literal counts in the text of the day elements
\* dated date: the token after the > that closes the element's opening tag.
LiteralsOf(text, date) ==
    { p \in 4..Len(text) :
        /\ text[p].t \in {"count", "none"}
        /\ text[p - 1].t = "gt"
        /\ text[p - 2].t = "level"
        /\ text[p - 3].t = "date" /\ text[p - 3].date = date }

\* The number a literal count states: N of "N contributions", 0 of "No
\* contributions".
LiteralValue(tok) == IF tok.t = "count" THEN tok.count ELSE 0

-----------------------------------------------------------------------------
(* C13: every pair gives a record with the estimate of its level           *)

\* The positions of the well-formed pairs of text: a date attribute with
\* the level attribute after it in the same tag.
PairsOf(text) ==
    { p \in 1..(Len(text) - 1) :
        text[p].t = "date" /\ text[p + 1].t = "level" }

\* No "N contributions" and no "No contributions" in text.
NoLiteral(text) == \A p \in 1..Len(text) : text[p].t \notin {"count", "none"}

\* The table of the estimates.
EstimateTable(level) ==
    IF level \in 0..4 THEN <<0, 1, 3, 6, 10>>[level + 1] ELSE 0

\* The number of records of ds with the given date and level.
Copies(ds, date, level) ==
    Cardinality({ i \in 1..Len(ds) : ds[i].date = date /\ ds[i].level = level })

\* C13: from a body with k well-formed date/level pairs (k >= 1) and no
\* literal count, parse_contribution_html returns exactly k records, one
\* for each pair, each with the estimate of its level as count: 0->0, 1->1,
\* 2->3, 3->6, 4->10, any other level->0.
C13_ExtractionComplete ==
    (ParseDone /\ NoLiteral(html) /\ PairsOf(html) # {}) =>
        /\ Parsed.ok
        /\ Len(Parsed.value) = Cardinality(PairsOf(html))
        /\ \A p \in PairsOf(html) :
              Copies(Parsed.value, html[p].date, html[p + 1].level)
                = Cardinality({ q \in PairsOf(html) :
                                  /\ html[q].date = html[p].date
                                  /\ html[q + 1].level = html[p + 1].level })
        /\ \A i \in 1..Len(Parsed.value) :
              Parsed.value[i].count = EstimateTable(Parsed.value[i].level)

\* Two pairs, of levels 4 and 7, give two records, of counts 10 and 0.
C13_Witness ==
    /\ ParseDone /\ Parsed.ok /\ NoLiteral(html)
    /\ Cardinality(PairsOf(html)) = 2
    /\ Len(Parsed.value) = 2
    /\ Parsed.value[1].level = 4 /\ Parsed.value[1].count = 10
    /\ Parsed.value[2].level = 7 /\ Parsed.value[2].count = 0

-----------------------------------------------------------------------------
(* C14: no record, no success                                              *)

\* The date/level pairings of text from token i on, read tag by tag: a >
\* ends the tag, the first date attribute of a tag waits for a level
\* attribute of the same tag, and the two make a pairing.
RECURSIVE PairScan(_, _, _)
PairScan(text, i, pending) ==
    IF i > Len(text) THEN <<>>
    ELSE IF text[i].t = "gt" THEN PairScan(text, i + 1, None)
    ELSE IF text[i].t = "date" /\ pending = None
    THEN PairScan(text, i + 1, Some(text[i].date))
    ELSE IF text[i].t = "level" /\ pending # None
    THEN <<[date |-> pending[1], level |-> text[i].level]>>
            \o PairScan(text, i + 1, None)
    ELSE PairScan(text, i + 1, pending)

\* The pairings of a date attribute with a level attribute inside one tag.
InElementPairs(text) == PairScan(text, 1, None)

NoDataFound == "No contribution data found in HTML"

\* The text <html></html>.
EmptyDocument ==
    <<[t |-> "lt"], [t |-> "text"], [t |-> "gt"],
      [t |-> "lt"], [t |-> "text"], [t |-> "gt"]>>

\* parse_contribution_html("") and parse_contribution_html("<html></html>")
\* are the NoDataFound error.
EmptyInputScenario ==
    /\ parse_contribution_html(<<>>) = Err(NoDataFound)
    /\ parse_contribution_html(EmptyDocument) = Err(NoDataFound)

\* C14: parse_contribution_html returns the NoDataFound error exactly when
\* the text holds no date/level pairing, as for "" and "<html></html>";
\* with at least one pairing it returns Ok with a record for each.
C14_NoDataFound ==
    /\ EmptyInputScenario
    /\ ParseDone =>
          IF InElementPairs(html) = <<>>
          THEN Parsed = Err(NoDataFound)
          ELSE Parsed.ok /\ Len(Parsed.value) = Len(InElementPairs(html))

\* A body with a date attribute in one tag and a level attribute in the
\* next gives the error.
C14_Witness ==
    /\ ParseDone /\ Parsed = Err(NoDataFound)
    /\ Len(html) = 4
    /\ html[2].t = "date" /\ html[3].t = "gt" /\ html[4].t = "level"

-----------------------------------------------------------------------------
(* C15: the order of the two attributes                                    *)

\* The body is one tag with a level attribute and then a date attribute.
LevelFirstElement ==
    /\ Len(html) = 4
    /\ html[1].t = "lt" /\ html[2].t = "level"
    /\ html[3].t = "date" /\ html[4].t = "gt"

\* C15: a tag with the level attribute before the date attribute gives the
\* record the tag with the date attribute first gives: the date, the level
\* and the estimate of the level.
C15_AttributeOrder ==
    (ParseDone /\ LevelFirstElement) =>
        Parsed = Ok(<<ContributionDay(html[3].date,
                                      EstimateTable(html[2].level),
                                      html[2].level)>>)

-----------------------------------------------------------------------------
(* C16: a pairing stays inside its tag                                     *)

\* The records returned, none when the call failed.
Records == IF Parsed.ok THEN Parsed.value ELSE <<>>

\* C16: the records of parse_contribution_html are the pairings of a date
\* attribute with a level attribute of the same tag, one record for each:
\* no date is paired with the level of another tag, so a tag with a date
\* and no level gives no record, and the tags after it give theirs.
C16_InElementBounding ==
    ParseDone =>
        LET pairs == InElementPairs(html) IN
        /\ Len(Records) = Len(pairs)
        /\ \A k \in 1..Len(pairs) :
              Copies(Records, pairs[k].date, pairs[k].level)
                = Cardinality({ j \in 1..Len(pairs) : pairs[j] = pairs[k] })

\* A tag with a date and no level, then a tag with another date and a
\* level: the one record is the second tag's.
C16_Witness ==
    /\ ParseDone /\ Parsed.ok
    /\ Len(html) = 4
    /\ html[1].t = "date" /\ html[2].t = "gt"
    /\ html[3].t = "date" /\ html[4].t = "level"
    /\ html[1].date # html[3].date
    /\ Len(Parsed.value) = 1
    /\ Parsed.value[1].date = html[3].date
    /\ Parsed.value[1].level = html[4].level

-----------------------------------------------------------------------------
(* C17: the range of the level                                             *)

\* C17: every record parse_contribution_html returns has a level between 0
\* and 4.
C17_LevelRange ==
    (ParseDone /\ Parsed.ok) =>
        \A i \in 1..Len(Parsed.value) : Parsed.value[i].level \in 0..4

-----------------------------------------------------------------------------
(* C18: dates that are no day of the calendar                              *)

\* C18: a pairing whose date has the shape YYYY-MM-DD and is no day of the
\* calendar gives no record, and the call succeeds exactly when some
\* pairing has a date of the calendar.
C18_BadDatesSkipped ==
    ParseDone =>
        /\ \A i \in 1..Len(Records) : ParseOk(Records[i].date)
        /\ Parsed.ok <=>
              \E k \in 1..Len(InElementPairs(html)) :
                  ParseOk(InElementPairs(html)[k].date)

-----------------------------------------------------------------------------
(* C19: the streaks are well-formed                                        *)

\* A streak of no day with empty dates, or one whose count is the number of
\* calendar days from start_date to end_date, both included.
WellFormed(streak) ==
    \/ streak.count = 0 /\ streak.start_date = EmptyString
                        /\ streak.end_date = EmptyString
    \/ /\ streak.count >= 1
       /\ ParseOk(streak.start_date) /\ ParseOk(streak.end_date)
       /\ DateValue(streak.start_date) <= DateValue(streak.end_date)
       /\ streak.count
            = DateValue(streak.end_date) - DateValue(streak.start_date) + 1

\* C19: the current and the longest streak calculate_stats returns are
\* well-formed, whatever the day list: dates twice and dates missing
\* included.
C19_StreaksWellFormed ==
    StatsDone =>
        /\ WellFormed(Result.current_streak)
        /\ WellFormed(Result.longest_streak)

\* A list with a date twice: the longest streak is the two days up to it,
\* the current streak the one day of it.
C19_Witness ==
    /\ StatsDone
    /\ \E i \in 1..(Len(days) - 1) : days[i].date = days[i + 1].date
    /\ Result.longest_streak.count = 2
    /\ Result.current_streak.count = 1
    /\ Result.longest_streak.start_date # Result.longest_streak.end_date

-----------------------------------------------------------------------------
(* C20: the total                                                          *)

\* The counts of the first n records of ds, added up.
RECURSIVE CountsUpTo(_, _)
CountsUpTo(ds, n) ==
    IF n = 0 THEN 0 ELSE CountsUpTo(ds, n - 1) + ds[n].count

-----------------------------------------------------------------------------
(* C21: no call ends with a panic                                          *)

\* C21: calculate_stats ends with a value, never with a panic, whatever the
\* counts of the list, also when their sum exceeds the range of u32.
C21_NoPanic == outcome # None => ~outcome[1].panic

-----------------------------------------------------------------------------
(* C22: the best day among equal counts                                    *)

\* C22: best_day is the record of the greatest count that no record of
\* that count follows, so of several records with the maximum the last of
\* the list; for the empty list it is the empty date with count 0.
C22_BestDayTieBreak ==
    StatsDone =>
        /\ days = <<>> => Result.best_day = [date |-> EmptyString, count |-> 0]
        /\ \A i \in 1..Len(days) :
              (/\ \A j \in 1..Len(days) : days[j].count <= days[i].count
               /\ \A j \in (i + 1)..Len(days) : days[j].count < days[i].count)
                  => Result.best_day = [date |-> days[i].date,
                                        count |-> days[i].count]

\* Three records on three dates with one positive count: the best day is
\* the third.
C22_Witness ==
    /\ StatsDone
    /\ Len(days) = 3
    /\ days[1].count = 2 /\ days[2].count = 2 /\ days[3].count = 2
    /\ days[1].date # days[2].date /\ days[2].date # days[3].date
    /\ Result.best_day = [date |-> days[3].date, count |-> 2]

-----------------------------------------------------------------------------
(* C23: the best-seen streak during the scan                               *)

\* The locals of the scan, the record of the iteration just done, and the
\* end of the scan.
Locals == scan[1].locals
Scanned == days[scan[1].n]
ScanDone == scan # None /\ scan[1].n = Len(days)

\* One iteration: the best-seen streak is not shortened; it is replaced
\* only by the running streak, and only when the running counter exceeds
\* its count; a dated record of count 0 ends the running streak and leaves
\* the best seen as it is.
ScanStep ==
    (scan # None /\ scan' # scan) =>
        LET before == scan[1].locals
            after  == scan'[1].locals
            day    == days[scan'[1].n]
        IN  /\ after.longest.count >= before.longest.count
            /\ after.longest # before.longest =>
                  /\ after.current_count > before.longest.count
                  /\ after.longest.count = after.current_count
                  /\ after.longest.start_date = after.current_start[1]
                  /\ after.longest.end_date = day.date
            /\ (ParseOk(day.date) /\ day.count = 0) =>
                  /\ after.longest = before.longest
                  /\ after.current_count = 0
                  /\ after.current_start = None

\* At the end of the scan the best seen is the earliest of the longest
\* runs of the dated records.
EarliestOfLongest ==
    ScanDone =>
        LET v == Dated(days)
            n == MaxRun(v)
        IN  IF n = 0 THEN Locals.longest = EmptyStreak
            ELSE LET a == CHOOSE a \in 1..(Len(v) - n + 1) :
                            /\ IsRun(v, a, a + n - 1)
                            /\ \A b \in 1..(a - 1) : ~IsRun(v, b, b + n - 1)
                 IN  Locals.longest = [count      |-> n,
                                       start_date |-> v[a].date,
                                       end_date   |-> v[a + n - 1].date]

\* C23: during the forward scan of calculate_longest_streak the best-seen
\* streak is never shortened or cleared; a record of count 0 resets the
\* running streak only; the best seen is replaced only when the running
\* counter strictly exceeds its count; so of equally long longest runs the
\* earliest is reported.
C23_BestSeenKept == []EarliestOfLongest /\ [][ScanStep]_vars

\* Two runs of one day with a day of count 0 between them: the scan ends
\* with the first as the best seen.
C23_Witness ==
    /\ ScanDone
    /\ Len(days) = 3
    /\ \A i \in 1..3 : ParseOk(days[i].date)
    /\ days[1].count > 0 /\ days[2].count = 0 /\ days[3].count > 0
    /\ days[1].date # days[3].date
    /\ Locals.longest = [count |-> 1, start_date |-> days[1].date,
                          end_date |-> days[1].date]

-----------------------------------------------------------------------------
(* C24: records whose date is no day of the calendar                       *)

\* C24: group_into_weeks drops the records whose date is no day of the
\* calendar and keeps the others in the order of the input; a dropped
\* record closes no week and opens none: no week is empty, and a week ends
\* exactly where the next kept record is dated a Sunday.
C24_BadDatesDropped ==
    WeeksDone =>
        /\ ConcatWeeks(Weeks) = Dated(days)
        /\ \A k \in 1..Len(Weeks) :
              /\ Weeks[k].days # <<>>
              /\ k >= 2 => WeekdayOf(FirstDay(Weeks[k])) = 0
              /\ \A i \in 2..Len(Weeks[k].days) :
                    WeekdayOf(Weeks[k].days[i]) # 0

\* A record dated 2024-02-30 between a Thursday and a Friday: the two are
\* one week.
C24_Witness ==
    /\ WeeksDone
    /\ Len(days) = 3
    /\ ParseOk(days[1].date) /\ ~ParseOk(days[2].date) /\ ParseOk(days[3].date)
    /\ Weeks = <<[days |-> <<days[1], days[3]>>]>>

-----------------------------------------------------------------------------
(* C28: the current streak and the longest streak                          *)

\* C28: for every day list and every date of today, the current streak
\* calculate_stats returns is not longer than the longest streak.
C28_CurrentWithinLongest ==
    StatsDone =>
        Result.current_streak.count <= Result.longest_streak.count

\* A current streak of two days, which is also the longest streak.
C28_Witness ==
    /\ StatsDone
    /\ Result.current_streak.count = 2
    /\ Result.longest_streak.count = 2
    /\ Result.current_streak.end_date = Result.longest_streak.end_date

-----------------------------------------------------------------------------
(* C30: an estimated count follows the level                               *)

\* The records returned for the dates that have no literal count.
Estimated ==
    { i \in 1..Len(Records) : LiteralsOf(html, Records[i].date) = {} }

\* C30: a record whose count is estimated has count > 0 exactly when its
\* level is at least 1 (and count 0 exactly when its level is 0), for every
\* level digit the scanner accepts, and of two such records the one of the
\* higher level has no smaller count.
C30_ActivityFollowsLevel ==
    ParseDone =>
        /\ \A i \in Estimated :
              Records[i].count > 0 <=> Records[i].level >= 1
        /\ \A i, j \in Estimated :
              Records[i].level <= Records[j].level
                  => Records[i].count <= Records[j].count

-----------------------------------------------------------------------------
(* C25: a failed fetch changes nothing                                     *)

Slots == 1..MaxCommands

\* A step in which the fetch of a command fails: the command leaves the
\* await of line 154 and ends.
FetchFailed ==
    \E c \in Slots : commands[c].pc = "fetching" /\ commands'[c].pc = "idle"

\* C25: a fetch_contributions command whose fetch fails (no response, a
\* status that is no success, an unreadable body, or NoDataFound) returns
\* Err and leaves the cache and the stored username as they are; a command
\* writes them only after its fetch has succeeded.
C25_FailedFetchFrame ==
    [][/\ FetchFailed =>
            /\ reply'[1].command = "fetch_contributions"
            /\ ~reply'[1].result.ok
            /\ UNCHANGED <<CONTRIBUTION_CACHE, CURRENT_USERNAME>>
       /\ CONTRIBUTION_CACHE' # CONTRIBUTION_CACHE =>
            \E c \in Slots : /\ commands[c].pc = "caching"
                              /\ CONTRIBUTION_CACHE' = Some(commands[c].data)
       /\ (commands' # commands /\ CURRENT_USERNAME' # CURRENT_USERNAME) =>
            \E c \in Slots : /\ commands[c].pc = "naming"
                              /\ CURRENT_USERNAME' = Some(commands[c].username)
      ]_vars

\* After a successful fetch a fetch has failed with NoDataFound: cache and
\* username are still set.
C25_Witness ==
    /\ reply # None
    /\ reply[1].command = "fetch_contributions"
    /\ reply[1].result = Err(NoDataFound)
    /\ CONTRIBUTION_CACHE # None
    /\ CURRENT_USERNAME # None

-----------------------------------------------------------------------------
(* C26: what get_cached_contributions returns                              *)

\* A step in which the command returns to the frontend.
Returns(command) ==
    /\ reply' # None
    /\ reply'[1].command = command
    /\ \/ reply = None
       \/ reply[1].command # command
       \/ reply[1].result # reply'[1].result

\* A step in which get_cached_contributions returns.
CacheRead == Returns("get_cached_contributions")

\* No command stands between the end of its fetch and its return.
Quiet == \A c \in Slots : commands[c].pc \in {"idle", "fetching"}

\* C26 (as stated): get_cached_contributions returns None until a fetch
\* has succeeded, afterwards the data of the successful fetch that was
\* completed last, and leaves the cache as it is; a fetch that fails and a
\* refresh that finds no username leave the cache as it is.
C26_ReturnsLastCompleted ==
    [][/\ (CacheRead /\ Quiet) =>
            /\ reply'[1].result = Cached(last_completed)
            /\ UNCHANGED CONTRIBUTION_CACHE
       /\ FetchFailed => UNCHANGED CONTRIBUTION_CACHE
       /\ Returns("refresh_contributions") => UNCHANGED CONTRIBUTION_CACHE
      ]_vars

\* C26 (amended): get_cached_contributions returns None until a fetch has
\* succeeded and stored its data, afterwards the data of the successful
\* fetch that stored last, and leaves the cache as it is; a fetch that
\* fails and a refresh that finds no username leave the cache as it is.
C26_CachedContributions ==
    [][/\ CacheRead =>
            /\ reply'[1].result = Cached(last_stored)
            /\ UNCHANGED <<CONTRIBUTION_CACHE, last_stored>>
       /\ FetchFailed => UNCHANGED CONTRIBUTION_CACHE
       /\ Returns("refresh_contributions") => UNCHANGED CONTRIBUTION_CACHE
      ]_vars

\* Two fetches have overlapped: get_cached_contributions has returned the
\* data of the one that stored last, and the other one returned last.
C26_Witness ==
    /\ reply # None
    /\ reply[1].command = "get_cached_contributions"
    /\ reply[1].result = Cached(last_stored)
    /\ last_stored # None
    /\ last_completed # None
    /\ last_completed # last_stored
    /\ Quiet

-----------------------------------------------------------------------------
(* C27: refresh_contributions and the stored username                      *)

-----------------------------------------------------------------------------
(* C29: the cache and the stored username                                  *)

\* C29: whenever the cache and the stored username are both set, the
\* cached data is that of the stored username.
C29_CacheMatchesUsername ==
    (CONTRIBUTION_CACHE # None /\ CURRENT_USERNAME # None) =>
        CONTRIBUTION_CACHE[1].user.username = CURRENT_USERNAME[1]

=============================================================================
